---------------------------- MODULE Spec2Model ----------------------------
(***************************************************************************)
(* Prettig Thuis: the quest scheduler of the App component and the         *)
(* generation pipeline of services/geminiService.ts.                       *)
(*                                                                         *)
(* geminiService.ts holds two revisions of the service, one after the      *)
(* other:                                                                  *)
(*   revision 1 (lines 1-163): typed GeminiError, safety check in          *)
(*     processGeminiResponse, a single tier (getFallbackPrompt is defined   *)
(*     but never called);                                                  *)
(*   revision 2 (lines 164-309): untyped Error, no safety check, a second  *)
(*     tier started when the first error's message contains the no-image   *)
(*     phrase.                                                             *)
(* Both are modelled; `revision` says which one a generate call runs.      *)
(*                                                                         *)
(* Strings are sequences of tokens (each token a TLA+ string), so that     *)
(* template literals are concatenations and String.includes is a search.   *)
(***************************************************************************)
EXTENDS Integers, Sequences, FiniteSets, TLC

VARIABLES
    \* ---- scheduler (App.getNextQuest and what it reads)
    quests,             \* the catalog imported from ./lib/quests
    completedQuests,    \* the completion ledger: quest_id -> timestamp
    now,                \* Date.now()
    partOfDay,          \* getPartOfDay() as read by getNextQuest
    selected,           \* what getNextQuest returned
    schedPc,            \* "ready" | "done"
    \* ---- one generateActivityStrip call
    revision,           \* 1 | 2: the revision of geminiService.ts that runs
    personImageDataUrl,
    activity,
    environmentImageDataUrl,
    pc,                 \* "ready" | "inflight" | "waiting" | "done"
    tier,               \* 0 before the call, 1 in the first try block, 2 in the fallback try block
    attempt,            \* the loop variable of callGeminiWithRetry
    calls,              \* number of ai.models.generateContent calls so far
    sends,              \* one record per callGeminiWithRetry call: parts, log, outcome
    tier1Error,         \* `error`: what the catch block of the first try caught
    tier2Error,         \* `fallbackError`: what the catch block of the fallback try caught
    result,             \* how generateActivityStrip settled
    \* ---- the App component (useState values and what the user saw)
    appRevision,        \* 1 | 2: the revision of App that runs
    personImage,
    environmentImage,
    appState,           \* 'landing' | 'idle' | 'generating' | 'guiding'
    currentActivity,
    isCaregiverMenuOpen,
    isCustomMode,
    customPrompt,
    generation,         \* the generateActivityStrip call the App awaits
    caught,             \* how the call awaited by the handler that ran last settled
    alerted,            \* the text of the alert() the last handler raised
    readers,            \* the FileReaders of handleImageUpload whose load has not ended
    earlier             \* the calls started before `generation` that have not settled

schedVars == <<quests, completedQuests, now, partOfDay, selected, schedPc>>

genVars == <<revision, personImageDataUrl, activity, environmentImageDataUrl,
             pc, tier, attempt, calls, sends, tier1Error, tier2Error, result>>

appVars == <<appRevision, personImage, environmentImage, appState, currentActivity,
             isCaregiverMenuOpen, isCustomMode, customPrompt, generation, caught,
             alerted, readers, earlier>>

vars == <<schedVars, genVars, appVars>>

-----------------------------------------------------------------------------
(* Bounds of the model.                                                    *)

\* longest catalog
MaxQuests == 2

\* largest cooldown_minutes of a catalog quest
MaxCooldown == 1

\* length, in minutes, of the stretch of time an App session is followed over
MaxMinutes == 1

\* most custom activities completed between two resets
MaxCustom == 1

-----------------------------------------------------------------------------
(* JavaScript values.                                                      *)

Null == <<"<null>">>

Undefined == <<"<undefined>">>

\* JavaScript truthiness of a string | null | undefined
Truthy(s) == s # Null /\ s # Undefined /\ s # <<>>

\* String.prototype.includes, on token sequences
Includes(s, token) == \E i \in 1..Len(s) : s[i] = token

-----------------------------------------------------------------------------
(* The quest scheduler: App.getPartOfDay and App.getNextQuest.             *)
(* The two revisions of App (part_000 lines 80-103 and 429-452) are the    *)
(* same text.                                                              *)

\* Quest, reduced to the fields getNextQuest reads
NullQuest == [quest_id |-> "<null>", cooldown_minutes |-> 0, tags |-> {}]

Hours == 0..23

PartsOfDay == {"morning", "midday", "afternoon", "evening"}

\* a mutant of getPartOfDay: the afternoon runs through hour 21
getPartOfDay_lateAfternoon(h) ==
    IF h >= 5 /\ h < 12 THEN "morning"
    ELSE IF h >= 12 /\ h < 17 THEN "midday"
    ELSE IF h >= 17 /\ h <= 21 THEN "afternoon"
    ELSE "evening"

getPartOfDay(h) ==
    IF h >= 5 /\ h < 12 THEN "morning"
    ELSE IF h >= 12 /\ h < 17 THEN "midday"
    ELSE IF h >= 17 /\ h < 21 THEN "afternoon"
    ELSE "evening"

\* a mutant of lastCompleted: the latest completion of any quest is read
lastCompleted_latest(cq, id) ==
    IF DOMAIN cq = {} THEN 0
    ELSE CHOOSE t \in {cq[k] : k \in DOMAIN cq} : \A k \in DOMAIN cq : cq[k] <= t

\* completedQuests[quest_id] || 0
lastCompleted(cq, id) == IF id \in DOMAIN cq /\ cq[id] # 0 THEN cq[id] ELSE 0

\* a mutant of isOnCooldown: the boundary instant still counts as cooldown
isOnCooldown_inclusive(quest, cq, t) ==
    lastCompleted(cq, quest.quest_id) + quest.cooldown_minutes * 60000 >= t

isOnCooldown(quest, cq, t) ==
    lastCompleted(cq, quest.quest_id) + quest.cooldown_minutes * 60000 > t

isCorrectTime(quest, part) == part \in quest.tags \/ "anytime" \in quest.tags

\* a mutant of availableQuests: the filter drops the cooldown test
availableQuests_noCooldown(qs, cq, t, part) ==
    SelectSeq(qs, LAMBDA quest : isCorrectTime(quest, part))

\* a mutant of availableQuests: the filter drops the test of the tags
availableQuests_anyTag(qs, cq, t, part) ==
    SelectSeq(qs, LAMBDA quest : ~isOnCooldown(quest, cq, t))

availableQuests(qs, cq, t, part) ==
    SelectSeq(qs, LAMBDA quest : isCorrectTime(quest, part) /\ ~isOnCooldown(quest, cq, t))

\* a mutant of anyQuest: the relaxed path drops the cooldown test as well
anyQuest_firstOfCatalog(qs, cq, t) == IF Len(qs) = 0 THEN NullQuest ELSE qs[1]

\* a mutant of anyQuest: the last quest that is not on cooldown is taken
anyQuest_lastFree(qs, cq, t) ==
    LET free == {i \in 1..Len(qs) : ~isOnCooldown(qs[i], cq, t)}
    IN  IF free = {} THEN NullQuest
        ELSE qs[CHOOSE i \in free : \A j \in free : i >= j]

\* quests.find(q => !(... > now)) || null
anyQuest(qs, cq, t) ==
    LET free == {i \in 1..Len(qs) : ~isOnCooldown(qs[i], cq, t)}
    IN  IF free = {} THEN NullQuest
        ELSE qs[CHOOSE i \in free : \A j \in free : i <= j]

\* Math.random() is rnd / RandomSteps, rnd in 0..RandomSteps-1
RandomSteps == MaxQuests

\* `part` is what getPartOfDay() returned (line 89)
getNextQuest(qs, cq, t, part, rnd) ==
    LET avail == availableQuests(qs, cq, t, part)
    IN  IF Len(avail) = 0 THEN anyQuest(qs, cq, t)
        ELSE avail[((rnd * Len(avail)) \div RandomSteps) + 1]

(* Inputs of the scheduler.                                                *)

QuestIds == <<"q1", "q2", "q3", "q4", "q5", "q6">>

TagSets == {{"morning", "evening"}, {"anytime"}}

\* the catalogs of length n: the quest at position i has id QuestIds[i]
CatalogsOfLength(n) ==
    {c \in [1..n -> [quest_id : {QuestIds[i] : i \in 1..n},
                     cooldown_minutes : 0..MaxCooldown,
                     tags : TagSets]] :
        \A i \in 1..n : c[i].quest_id = QuestIds[i]}

Catalogs == UNION {CatalogsOfLength(n) : n \in 0..MaxQuests}

Stamps == {1, 7}

\* ledgers over the ids of a catalog
Ledgers(qs) ==
    LET ids == {qs[i].quest_id : i \in 1..Len(qs)}
    IN  UNION {[d -> Stamps] : d \in SUBSET ids}

\* instants around every cooldown boundary of the drawn stamps
Nows == {n \in {s + c * 60000 + d : s \in Stamps, c \in 0..MaxCooldown, d \in {-1, 0, 1}} : n >= 0}

-----------------------------------------------------------------------------
(* geminiService.ts: values.                                               *)

\* new Error(message); id 0 marks an error object created by the service
NewError(message) ==
    [name |-> "Error", message |-> message, userFriendlyMessage |-> Undefined, id |-> 0]

\* new GeminiError(message, userFriendlyMessage)
GeminiError(message, userFriendlyMessage) ==
    [name |-> "GeminiError", message |-> message,
     userFriendlyMessage |-> userFriendlyMessage, id |-> 0]

NoError == [name |-> "<none>", message |-> <<>>, userFriendlyMessage |-> Undefined, id |-> 0]

\* error instanceof Error
instanceofError(error) == error.name \in {"Error", "GeminiError"}

\* error instanceof Error ? error.message : JSON.stringify(error)
\* (a thrown value that is no Error carries its JSON text in `message`)
errorMessageOf(error) == error.message

\* String(fallbackError) of a thrown value that is no Error
StringOf(error) == <<"[object Object]">>

NoInlineData == [mimeType |-> Undefined, data |-> Undefined]

ImagePart(mimeType, data) ==
    [inlineData |-> [mimeType |-> mimeType, data |-> data], text |-> Undefined]

TextPart(text) == [inlineData |-> NoInlineData, text |-> text]

NoPart == [inlineData |-> NoInlineData, text |-> Undefined]

\* how a call settles: it returns a value or throws an error
Return(value) == [kind |-> "return", value |-> value, error |-> NoError]

Throw(error) == [kind |-> "throw", value |-> Undefined, error |-> error]

Unsettled == [kind |-> "pending", value |-> Undefined, error |-> NoError]

(* The Dutch user messages.                                                *)

MsgInappropriate ==
    <<"De beschrijving werd als ongepast gemarkeerd. Probeer het met andere woorden.">>

MsgUnexpected ==
    <<"Het is niet gelukt een afbeelding te maken. De AI gaf een onverwacht antwoord. Probeer een andere activiteit.">>

MsgTechnical ==
    <<"Er is een technische fout opgetreden bij het maken van de afbeelding. Controleer uw internetverbinding en probeer het later opnieuw.">>

(* Message fragments.                                                      *)

NoImagePhrase == "The AI model responded with text instead of an image"

InvalidFormat == <<"Invalid image data URL format.">>

FailedDetails == "The AI model failed to generate an image. Details: "

BothFailed == "The AI model failed with both original and fallback prompts. Last error: "

\* String.prototype.toLowerCase, token by token
LowerCaseToken(token) ==
    CASE token = "SAFETY" -> "safety"
      [] token = "INTERNAL" -> "internal"
      [] token = "Request blocked: " -> "request blocked: "
      [] token = NoImagePhrase -> "the ai model responded with text instead of an image"
      [] token = "upstream: " -> "upstream: "
      [] OTHER -> token

toLowerCase(s) == [i \in 1..Len(s) |-> LowerCaseToken(s[i])]

-----------------------------------------------------------------------------
(* geminiService.ts: the pure functions.                                   *)

\* a mutant of getFallbackPrompt: the fallback text refers to a second photo
getFallbackPrompt_withEnvironment(act) ==
    <<"Show the person in the photo doing this: \"">> \o act
    \o <<"\". ", "Use the second photo as the background environment.">>

getFallbackPrompt(act) ==
    <<"Show the person in the photo doing this: \"">> \o act
    \o <<"\". Create a very simple 3-panel image that shows the steps. The style must be a clear and easy-to-understand drawing.">>

\* a mutant of primaryPrompt: the activity is not interpolated
primaryPrompt_noActivity(act, environmentUrl) ==
    <<"You are an assistant creating a visual guide for a person with cognitive challenges. Your task is to create a simple, clear, 3-panel comic strip showing the person from the first photo performing the activity: \"">>
    \o <<"\".">>
    \o (IF Truthy(environmentUrl)
        THEN <<"Use the second photo as the background environment.">> ELSE <<>>)

\* the template literal of lines 125-132 / 265-272
primaryPrompt(act, environmentUrl) ==
    <<"You are an assistant creating a visual guide for a person with cognitive challenges. Your task is to create a simple, clear, 3-panel comic strip showing the person from the first photo performing the activity: \"">>
    \o act \o <<"\".">>
    \o (IF Truthy(environmentUrl)
        THEN <<"Use the second photo as the background environment.">> ELSE <<>>)
    \o <<"The style MUST be photorealistic, bright, and easy to understand. Do not add any text, speech bubbles, or labels to the image. The final output must be a single, wide image containing the 3 panels side-by-side.">>

\* \w+ : the sub-type tokens made of word characters only
IsWord(token) == token \in {"png", "jpeg", "webp"}

\* dataUrl.match(/^data:(image\/\w+);base64,(.*)$/)
matchesDataUrl(dataUrl) ==
    /\ Len(dataUrl) >= 4
    /\ dataUrl[1] = "data:"
    /\ dataUrl[2] = "image/"
    /\ IsWord(dataUrl[3])
    /\ dataUrl[4] = ";base64,"
    /\ \A i \in 5..Len(dataUrl) : dataUrl[i] # "\n"

\* a mutant of createPart: the match is not tested
createPart_unchecked(dataUrl) == Return(ImagePart(<<"image/", "png">>, dataUrl))

createPart(dataUrl) ==
    IF ~matchesDataUrl(dataUrl) THEN Throw(NewError(InvalidFormat))
    ELSE Return(ImagePart(SubSeq(dataUrl, 2, 3), SubSeq(dataUrl, 5, Len(dataUrl))))

\* response.candidates?.[0]
NoCandidate == [finishReason |-> "<undefined>", parts |-> <<>>]

\* a mutant of firstCandidate: the last candidate is read
firstCandidate_last(response) ==
    IF Len(response.candidates) >= 1 THEN response.candidates[Len(response.candidates)]
    ELSE NoCandidate

firstCandidate(response) ==
    IF Len(response.candidates) >= 1 THEN response.candidates[1] ELSE NoCandidate

\* parts?.find(part => part.inlineData)
findInlineData(parts) ==
    LET hits == {i \in 1..Len(parts) : parts[i].inlineData # NoInlineData}
    IN  IF hits = {} THEN NoPart
        ELSE parts[CHOOSE i \in hits : \A j \in hits : i <= j]

\* a mutant of toDataUrl: the image is re-labelled as PNG
toDataUrl_asPng(inlineData) ==
    <<"data:">> \o <<"image/", "png">> \o <<";base64,">> \o inlineData.data

\* `data:${mimeType};base64,${data}`
toDataUrl(inlineData) ==
    <<"data:">> \o inlineData.mimeType \o <<";base64,">> \o inlineData.data

\* the no-image message of lines 64 / 206
noImageMessage(response) ==
    <<NoImagePhrase, ": \"">>
    \o (IF Truthy(response.text) THEN response.text ELSE <<"No text response received.">>)
    \o <<"\"">>

\* revision 1, lines 45-67
processGeminiResponse1(response) ==
    IF firstCandidate(response).finishReason = "SAFETY"
    THEN Throw(GeminiError(<<"Generation failed due to ", "safety", " reasons.">>,
                           MsgInappropriate))
    ELSE LET imagePartFromResponse == findInlineData(firstCandidate(response).parts)
         IN  IF imagePartFromResponse.inlineData # NoInlineData
             THEN Return(toDataUrl(imagePartFromResponse.inlineData))
             ELSE Throw(GeminiError(noImageMessage(response), MsgUnexpected))

\* revision 2, lines 196-207
processGeminiResponse2(response) ==
    LET imagePartFromResponse == findInlineData(firstCandidate(response).parts)
    IN  IF imagePartFromResponse.inlineData # NoInlineData
        THEN Return(toDataUrl(imagePartFromResponse.inlineData))
        ELSE Throw(NewError(noImageMessage(response)))

processGeminiResponse(rev, response) ==
    IF rev = 1 THEN processGeminiResponse1(response) ELSE processGeminiResponse2(response)

maxRetries == 3

initialDelay == 1000

RECURSIVE pow2(_)
pow2(n) == IF n = 0 THEN 1 ELSE 2 * pow2(n - 1)

\* a mutant of isInternalError: a failed fetch counts as an internal error too
isInternalError_orFetch(errorMessage) ==
    Includes(errorMessage, "\"code\":500") \/ Includes(errorMessage, "INTERNAL")
    \/ Includes(errorMessage, "fetch failed")

\* errorMessage.includes('"code":500') || errorMessage.includes('INTERNAL')
isInternalError(errorMessage) ==
    Includes(errorMessage, "\"code\":500") \/ Includes(errorMessage, "INTERNAL")

\* a mutant of retryDelay: the delay does not grow
retryDelay_constant(k) == initialDelay

\* initialDelay * Math.pow(2, attempt - 1)
retryDelay(k) == initialDelay * pow2(k - 1)

\* a mutant of shouldRetry: one retry too many
shouldRetry_offByOne(error, k) == isInternalError(errorMessageOf(error)) /\ k <= maxRetries

\* the test of line 89 / 229
shouldRetry(error, k) == isInternalError(errorMessageOf(error)) /\ k < maxRetries

\* revision 1, the catch block of lines 140-162: the error it throws
catchPrimary1(error) ==
    IF error.name = "GeminiError" THEN error
    ELSE LET errorMessage == errorMessageOf(error)
         IN  IF Includes(toLowerCase(errorMessage), "safety")
             THEN GeminiError(<<"Generation failed due to ", "safety", " reasons: ">> \o errorMessage,
                              MsgInappropriate)
             ELSE GeminiError(<<FailedDetails>> \o errorMessage, MsgTechnical)

\* revision 2, line 283
isNoImageError(error) == Includes(errorMessageOf(error), NoImagePhrase)

\* revision 2, line 306: the error thrown when no fallback is tried
catchPrimary2(error) == NewError(<<FailedDetails>> \o errorMessageOf(error))

\* revision 2, lines 299-303: the error thrown when the fallback failed
catchFallback2(fallbackError) ==
    LET finalErrorMessage ==
            IF instanceofError(fallbackError) THEN fallbackError.message
            ELSE StringOf(fallbackError)
    IN  NewError(<<BothFailed>> \o finalErrorMessage)

-----------------------------------------------------------------------------
(* The generation capability, ai.models.generateContent: its outcomes.     *)

GeneratedPng == ImagePart(<<"image/", "png">>, <<"R0VOMQ==">>)

GeneratedJpeg == ImagePart(<<"image/", "jpeg">>, <<"R0VOMg==">>)

Refusal == <<"I cannot draw that.">>

PartLists ==
    {<<>>, <<TextPart(Refusal)>>, <<TextPart(Refusal), GeneratedPng>>,
     <<GeneratedJpeg, GeneratedPng>>}

FirstCandidates == [finishReason : {"STOP", "SAFETY"}, parts : PartLists]

LaterCandidate == [finishReason |-> "SAFETY", parts |-> <<GeneratedJpeg>>]

CandidateLists ==
    {<<>>} \cup {<<c>> : c \in FirstCandidates}
           \cup {<<c, LaterCandidate>> : c \in FirstCandidates}

\* the responses generateContent may resolve with (n is set on receipt)
Responses == [candidates : CandidateLists, text : {Undefined, <<>>, Refusal}, n : {0}]

\* the values generateContent may reject with (id is set when thrown)
TransportErrors ==
    {NewError(<<"{\"error\":{", "\"code\":500", "}}">>),
     NewError(<<"got status: ", "INTERNAL">>),
     NewError(<<"fetch failed">>),
     NewError(<<"Request blocked: ", "SAFETY">>),
     NewError(<<"upstream: ", NoImagePhrase>>),
     [NewError(<<"{\"status\":503}">>) EXCEPT !.name = "Object"]}

\* the capability's transient-server failures: status INTERNAL / code 500
ServerInternal(thrown) ==
    \E i \in 1..Len(thrown.message) : thrown.message[i] \in {"\"code\":500", "INTERNAL"}

-----------------------------------------------------------------------------
(* One generateActivityStrip call, step by step: each action runs from one *)
(* suspension point (the network call, the backoff timer) to the next.     *)

Event(ev, k, id, transient, delay) ==
    [ev |-> ev, attempt |-> k, id |-> id, transient |-> transient, delay |-> delay]

\* the record of a callGeminiWithRetry call whose first attempt is under way
NewSend(parts, id) ==
    [parts |-> parts, log |-> <<Event("attempt", 1, id, FALSE, 0)>>, outcome |-> Unsettled]

\* `ss` with the running send's log extended
Logged(ss, events) == [ss EXCEPT ![Len(ss)].log = @ \o events]

\* `ss` with the running send settled
Settled(ss, events, outcome) ==
    [ss EXCEPT ![Len(ss)].log = @ \o events, ![Len(ss)].outcome = outcome]

\* generateActivityStrip settles
Finish(ss, r) ==
    /\ pc' = "done"
    /\ result' = r
    /\ sends' = ss
    /\ UNCHANGED <<tier, attempt, calls>>

\* a mutant of StartSend: the second attempt is issued together with the first
StartSend_fanOut(ss, t, parts) ==
    /\ pc' = "inflight"
    /\ tier' = t
    /\ attempt' = 2
    /\ calls' = calls + 2
    /\ sends' = Append(ss, [NewSend(parts, calls + 1) EXCEPT
                               !.log = @ \o <<Event("attempt", 2, calls + 2, FALSE, 0)>>])
    /\ UNCHANGED result

\* callGeminiWithRetry(parts) is entered and issues its first request
StartSend(ss, t, parts) ==
    /\ pc' = "inflight"
    /\ tier' = t
    /\ attempt' = 1
    /\ calls' = calls + 1
    /\ sends' = Append(ss, NewSend(parts, calls + 1))
    /\ UNCHANGED result

\* a mutant of tryBlock: the `return` keyword is missing
tryBlock_missingReturn(rev, sendOutcome) ==
    IF sendOutcome.kind = "return"
    THEN (IF processGeminiResponse(rev, sendOutcome.value).kind = "return"
          THEN Return(Undefined)
          ELSE processGeminiResponse(rev, sendOutcome.value))
    ELSE Throw(sendOutcome.error)

\* return processGeminiResponse(await callGeminiWithRetry(parts))
tryBlock(rev, sendOutcome) ==
    IF sendOutcome.kind = "return" THEN processGeminiResponse(rev, sendOutcome.value)
    ELSE Throw(sendOutcome.error)

\* what generateActivityStrip does once callGeminiWithRetry has settled
AfterSend(ss, sendOutcome) ==
    LET tried == tryBlock(revision, sendOutcome)
    IN  IF tried.kind = "return"
        THEN Finish(ss, tried) /\ UNCHANGED <<tier1Error, tier2Error>>
        ELSE IF tier = 1 /\ revision = 1
        THEN /\ Finish(ss, Throw(catchPrimary1(tried.error)))
             /\ tier1Error' = tried.error
             /\ UNCHANGED tier2Error
        ELSE IF tier = 1 /\ ~isNoImageError(tried.error)
        THEN /\ Finish(ss, Throw(catchPrimary2(tried.error)))
             /\ tier1Error' = tried.error
             /\ UNCHANGED tier2Error
        ELSE IF tier = 1
        THEN LET person == createPart(personImageDataUrl)
             IN  /\ tier1Error' = tried.error
                 /\ IF person.kind = "throw"
                    THEN /\ Finish(ss, Throw(catchFallback2(person.error)))
                         /\ tier2Error' = person.error
                    ELSE /\ StartSend(ss, 2, <<person.value,
                                               TextPart(getFallbackPrompt(activity))>>)
                         /\ UNCHANGED tier2Error
        ELSE /\ Finish(ss, Throw(catchFallback2(tried.error)))
             /\ tier2Error' = tried.error
             /\ UNCHANGED tier1Error

inputs == <<revision, personImageDataUrl, activity, environmentImageDataUrl>>

\* a mutant of primaryParts: the environment part is pushed unconditionally
primaryParts_alwaysEnvironment(person, environment, act, environmentUrl) ==
    <<person, environment, TextPart(primaryPrompt(act, environmentUrl))>>

\* the `parts` array of the first request (lines 118-134 / 258-274)
primaryParts(person, environment, act, environmentUrl) ==
    <<person>>
    \o (IF Truthy(environmentUrl) THEN <<environment>> ELSE <<>>)
    \o <<TextPart(primaryPrompt(act, environmentUrl))>>

\* the call, up to its first suspension (lines 110-138 / 250-279)
generateActivityStrip ==
    /\ pc = "ready"
    /\ LET person == createPart(personImageDataUrl)
           hasEnvironment == Truthy(environmentImageDataUrl)
           environment == IF hasEnvironment THEN createPart(environmentImageDataUrl)
                          ELSE Return(NoPart)
       IN  IF person.kind = "throw"
           THEN Finish(sends, person)
           ELSE IF environment.kind = "throw"
           THEN Finish(sends, environment)
           ELSE StartSend(sends, 1,
                          primaryParts(person.value, environment.value, activity,
                                       environmentImageDataUrl))
    /\ UNCHANGED <<tier1Error, tier2Error, inputs, schedVars, appVars>>

\* generateContent resolves: callGeminiWithRetry returns the response
TransportReturns ==
    /\ pc = "inflight"
    /\ \E shape \in Responses :
          LET response == [shape EXCEPT !.n = calls]
          IN  AfterSend(Settled(sends, <<Event("return", attempt, calls, FALSE, 0)>>,
                                Return(response)),
                        Return(response))
    /\ UNCHANGED <<inputs, schedVars, appVars>>

\* generateContent rejects: the catch block of callGeminiWithRetry
TransportThrows ==
    /\ pc = "inflight"
    /\ \E thrown \in TransportErrors :
          LET error == [thrown EXCEPT !.id = calls]
              failed == Event("fail", attempt, calls, ServerInternal(thrown), 0)
          IN  IF shouldRetry(error, attempt)
              THEN /\ pc' = "waiting"
                   /\ sends' = Logged(sends, <<failed, Event("wait", attempt, 0, FALSE,
                                                             retryDelay(attempt))>>)
                   /\ UNCHANGED <<tier, attempt, calls, tier1Error, tier2Error, result>>
              ELSE AfterSend(Settled(sends, <<failed, Event("raise", attempt, error.id, FALSE, 0)>>,
                                     Throw(error)),
                             Throw(error))
    /\ UNCHANGED <<inputs, schedVars, appVars>>

\* the statement after the loop of callGeminiWithRetry (lines 99 / 239)
AfterAllRetries == <<"Gemini API call failed after all retries.">>

\* the backoff timer fires: `continue`, attempt++, and the loop test; the next
\* request is issued, or the loop is left and the statement after it throws
BackoffElapsed ==
    /\ pc = "waiting"
    /\ IF attempt + 1 <= maxRetries
       THEN /\ pc' = "inflight"
            /\ attempt' = attempt + 1
            /\ calls' = calls + 1
            /\ sends' = Logged(sends, <<Event("attempt", attempt + 1, calls + 1, FALSE, 0)>>)
            /\ UNCHANGED <<tier, tier1Error, tier2Error, result>>
       ELSE AfterSend(Settled(sends, <<Event("raise", attempt + 1, 0, FALSE, 0)>>,
                              Throw(NewError(AfterAllRetries))),
                      Throw(NewError(AfterAllRetries)))
    /\ UNCHANGED <<inputs, schedVars, appVars>>

(* Inputs of a generateActivityStrip call.                                 *)

PngUrl == <<"data:", "image/", "png", ";base64,", "UE5H">>

JpegUrl == <<"data:", "image/", "jpeg", ";base64,", "SlBH">>

\* data URLs the regular expression rejects
SvgUrl == <<"data:", "image/", "svg+xml", ";base64,", "U1ZH">>

TextUrl == <<"data:", "text/", "plain", ";base64,", "VFhU">>

NotAUrl == <<"blob:42">>

PersonUrls == {PngUrl, SvgUrl, TextUrl, NotAUrl}

EnvironmentUrls == {Null, <<>>, JpegUrl, TextUrl, NotAUrl}

Activities == {<<"Make a cup of tea">>, <<"Water the plants">>}

schedIdle ==
    /\ quests = <<>>
    /\ completedQuests = <<>>
    /\ now = 0
    /\ partOfDay = "<unset>"
    /\ selected = NullQuest
    /\ schedPc = "idle"

genIdle ==
    /\ revision = 1
    /\ personImageDataUrl = PngUrl
    /\ activity = <<>>
    /\ environmentImageDataUrl = Null
    /\ pc = "idle"
    /\ tier = 0
    /\ attempt = 0
    /\ calls = 0
    /\ sends = <<>>
    /\ tier1Error = NoError
    /\ tier2Error = NoError
    /\ result = Unsettled

(* The App component: values of its state.                                 *)

\* CurrentActivity.error when there is none (revision 1: { title, message };
\* revision 2: a string, kept in `message`)
NoActivityError == [title |-> Undefined, message |-> Undefined]

\* currentActivity === null
NoActivity ==
    [quest |-> NullQuest, status |-> "<null>", isCompleted |-> FALSE,
     url |-> Undefined, error |-> NoActivityError]

\* { quest, status: 'pending', isCompleted: false }
PendingActivity(quest) ==
    [quest |-> quest, status |-> "pending", isCompleted |-> FALSE,
     url |-> Undefined, error |-> NoActivityError]

\* no generateActivityStrip call is awaited
NoGeneration ==
    [person |-> Null, environment |-> Null, quest_id |-> "<none>", activity |-> <<>>]

appIdle ==
    /\ appRevision = 1
    /\ personImage = Null
    /\ environmentImage = Null
    /\ appState = "<unset>"
    /\ currentActivity = NoActivity
    /\ isCaregiverMenuOpen = FALSE
    /\ isCustomMode = FALSE
    /\ customPrompt = <<>>
    /\ generation = NoGeneration
    /\ caught = Unsettled
    /\ alerted = Undefined
    /\ readers = <<>>
    /\ earlier = <<>>

Init ==
    /\ revision \in {1, 2}
    /\ personImageDataUrl \in PersonUrls
    /\ activity \in Activities
    /\ environmentImageDataUrl \in EnvironmentUrls
    /\ pc = "ready"
    /\ tier = 0
    /\ attempt = 0
    /\ calls = 0
    /\ sends = <<>>
    /\ tier1Error = NoError
    /\ tier2Error = NoError
    /\ result = Unsettled
    /\ schedIdle
    /\ appIdle

Next ==
    \/ generateActivityStrip
    \/ TransportReturns
    \/ TransportThrows
    \/ BackoffElapsed

Spec == Init /\ [][Next]_vars

\* the same call when every generateContent request resolves or rejects and
\* every backoff timer fires
FairSpec ==
    /\ Init
    /\ [][Next]_vars
    /\ WF_vars(generateActivityStrip)
    /\ WF_vars(TransportReturns \/ TransportThrows)
    /\ WF_vars(BackoffElapsed)

-----------------------------------------------------------------------------
(* The scheduler on its own: getNextQuest applied to drawn inputs.         *)

SelectNext ==
    /\ schedPc = "ready"
    /\ \E part \in {getPartOfDay(h) : h \in Hours}, rnd \in 0..(RandomSteps - 1) :
          /\ partOfDay' = part
          /\ selected' = getNextQuest(quests, completedQuests, now, part, rnd)
    /\ schedPc' = "done"
    /\ UNCHANGED <<quests, completedQuests, now, genVars, appVars>>

SchedInit ==
    /\ quests \in Catalogs
    /\ completedQuests \in Ledgers(quests)
    /\ now \in Nows
    /\ partOfDay = "<unset>"
    /\ selected = NullQuest
    /\ schedPc = "ready"
    /\ genIdle
    /\ appIdle

SchedNext == SelectNext

SchedSpec == SchedInit /\ [][SchedNext]_vars

-----------------------------------------------------------------------------
(* generateActivityStrip as its caller sees it: the ways a call can settle. *)

\* the transport outcomes an App session is followed over: an image, a
\* safety-flagged refusal, a text-only answer, and two rejections
SessionResponses ==
    {[candidates |-> <<[finishReason |-> "STOP", parts |-> <<TextPart(Refusal), GeneratedPng>>]>>,
      text |-> Refusal, n |-> 0],
     [candidates |-> <<[finishReason |-> "SAFETY", parts |-> <<>>]>>, text |-> Undefined, n |-> 0],
     [candidates |-> <<[finishReason |-> "STOP", parts |-> <<TextPart(Refusal)>>]>>,
      text |-> Refusal, n |-> 0]}

SessionErrors ==
    {NewError(<<"got status: ", "INTERNAL">>),
     NewError(<<"Request blocked: ", "SAFETY">>)}

\* how callGeminiWithRetry can settle: a response, or a rejection unwrapped
SendOutcomes == {Return(r) : r \in SessionResponses} \cup {Throw(e) : e \in SessionErrors}

\* revision 2, lines 289-303: the fallback try block and its catch block
afterFallback(sendOutcome) ==
    LET tried == tryBlock(2, sendOutcome)
    IN  IF tried.kind = "return" THEN tried ELSE Throw(catchFallback2(tried.error))

FallbackOutcomes == {afterFallback(o) : o \in SendOutcomes}

\* the first try block and its catch block (lines 136-162 / 277-308)
afterPrimary(rev, sendOutcome) ==
    LET tried == tryBlock(rev, sendOutcome)
    IN  IF tried.kind = "return" THEN {tried}
        ELSE IF rev = 1 THEN {Throw(catchPrimary1(tried.error))}
        ELSE IF ~isNoImageError(tried.error) THEN {Throw(catchPrimary2(tried.error))}
        ELSE FallbackOutcomes

GenerationOutcomes1 == UNION {afterPrimary(1, o) : o \in SendOutcomes}

GenerationOutcomes2 == UNION {afterPrimary(2, o) : o \in SendOutcomes}

\* the outcomes of generateActivityStrip(person, _, environment)
generateActivityStripOutcomes(rev, person, environment) ==
    IF createPart(person).kind = "throw" THEN {createPart(person)}
    ELSE IF Truthy(environment) /\ createPart(environment).kind = "throw"
    THEN {createPart(environment)}
    ELSE IF rev = 1 THEN GenerationOutcomes1
    ELSE GenerationOutcomes2

-----------------------------------------------------------------------------
(* The App component (part_000): revision 1 is lines 1-386, revision 2     *)
(* lines 387-700.  Each action is one event handler, run to its next await, *)
(* together with the effects its state updates trigger.                    *)

\* Date.now() counts the milliseconds since 1970: a session starts later than
\* the longest cooldown after instant 0
SessionStart == MaxCooldown * 60000 + 1

\* the instants Date.now() is read at: the start of the session and every
\* whole minute after it
Instants == {SessionStart + m * 60000 : m \in 0..MaxMinutes}

\* how many FileReaders of handleImageUpload are followed while they load
MaxReaders == 2

\* how many calls are followed besides the one started last
MaxOverlap == 1

\* the catalogs of ./lib/quests an App session is followed with
SessionCatalogs ==
    {<<[quest_id |-> "q1", cooldown_minutes |-> 1, tags |-> {"morning", "evening"}],
       [quest_id |-> "q2", cooldown_minutes |-> 0, tags |-> {"anytime"}]>>,
     <<[quest_id |-> "q1", cooldown_minutes |-> 1, tags |-> {"anytime"}],
       [quest_id |-> "q2", cooldown_minutes |-> 1, tags |-> {"morning", "evening"}]>>}

\* reader.result of the uploaded files
Uploads == {PngUrl, TextUrl}

EnvironmentUploads == {JpegUrl}

CustomPrompts == {<<>>, <<"Fold the towels">>}

\* quest.description of a catalog quest: the catalog's activity text
descriptionOf(quest) == <<"Activity ", quest.quest_id>>

\* `custom-${Date.now()}`
customQuestId(t) == "custom-" \o ToString(t)

customQuest(t) ==
    [quest_id |-> customQuestId(t), cooldown_minutes |-> 0, tags |-> {"anytime"}]

\* the ledger entries of custom activities
customCompleted(qs, cq) == {id \in DOMAIN cq : \A i \in 1..Len(qs) : qs[i].quest_id # id}

\* a mutant of withCompleted: the timestamp is taken a minute ahead
withCompleted_ahead(cq, quest, t) ==
    [id \in DOMAIN cq \cup {quest.quest_id} |->
        IF id = quest.quest_id THEN t + 60000 ELSE cq[id]]

\* a mutant of withCompleted: the previous entries are not spread into the result
withCompleted_alone(cq, quest, t) == [id \in {quest.quest_id} |-> t]

\* ({ ...prev, [currentActivity.quest.quest_id]: Date.now() })
withCompleted(cq, quest, t) ==
    [id \in DOMAIN cq \cup {quest.quest_id} |-> IF id = quest.quest_id THEN t ELSE cq[id]]

\* the alert of startNextQuest when there is no quest or no person image
NoQuestAlert(appRev) ==
    IF appRev = 1
    THEN <<"Er zijn op dit moment geen nieuwe activiteiten beschikbaar. Probeer het later opnieuw.">>
    ELSE <<"No more quests available for now, or person image is missing.">>

\* revision 1: handleGenerationError(err): the error stored and the alert
handleGenerationError(err) ==
    IF err.name = "GeminiError"
    THEN [error |-> [title |-> <<"Generatie Fout">>, message |-> err.userFriendlyMessage],
          alert |-> <<"Fout bij het maken van de activiteit:\n\n">> \o err.userFriendlyMessage]
    ELSE IF instanceofError(err)
    THEN [error |-> [title |-> <<"Fout">>,
                     message |-> <<"Er is een technische fout opgetreden. Probeer het later opnieuw.">>],
          alert |-> <<"Fout: ", "Er is een technische fout opgetreden. Probeer het later opnieuw.">>]
    ELSE [error |-> [title |-> <<"Fout">>, message |-> <<"Er is een onbekende fout opgetreden.">>],
          alert |-> Undefined]

\* revision 2: the catch blocks of lines 483-487 / 522-525
catchGeneration2(err) ==
    [error |-> [title |-> Undefined,
                message |-> IF instanceofError(err) THEN err.message
                            ELSE <<"An unknown error occurred.">>],
     alert |-> Undefined]

catchGeneration(appRev, err) ==
    IF appRev = 1 THEN handleGenerationError(err) ELSE catchGeneration2(err)

(* PolaroidCard (part_001): the text it renders inside the frame.          *)

ErrorDisplay == <<"Sorry, something went wrong.">>

\* a mutant of PolaroidCard: the error prop is rendered
PolaroidCard_showsError(status, imageUrl, error) ==
    IF status = "error" THEN ErrorDisplay \o error.message ELSE <<>>

\* the `error` prop is not among the destructured props (line 46)
PolaroidCard(status, imageUrl, error) ==
    IF status = "error" THEN ErrorDisplay ELSE <<>>

(* The event handlers.                                                     *)

\* the calls that have not settled, in the order they were started
InFlight == IF generation = NoGeneration THEN earlier ELSE Append(earlier, generation)

\* startNextQuest() up to its await, called from a closure of an earlier
\* render: `image` and `cq` are the personImage and the completedQuests of that
\* render, `state` is the appState the handler leaves when it returns early
startNextQuestFrom(image, cq, state) ==
    \E quest \in {getNextQuest(quests, cq, now, getPartOfDay(h), rnd) :
                      h \in Hours, rnd \in 0..(RandomSteps - 1)} :
            /\ IF quest = NullQuest \/ ~Truthy(image)
               THEN /\ alerted' = NoQuestAlert(appRevision)
                    /\ appState' = state
                    /\ UNCHANGED <<isCaregiverMenuOpen, environmentImage, currentActivity,
                                   generation, earlier>>
               ELSE /\ Len(InFlight) <= MaxOverlap
                    /\ alerted' = Undefined
                    /\ isCaregiverMenuOpen' = FALSE
                    /\ environmentImage' = Null
                    /\ currentActivity' = PendingActivity(quest)
                    /\ appState' = "generating"
                    /\ generation' = [person |-> image, environment |-> Null,
                                      quest_id |-> quest.quest_id,
                                      activity |-> descriptionOf(quest)]
                    /\ earlier' = InFlight

\* startNextQuest() up to its await, called from the current render
startNextQuest(image) == startNextQuestFrom(image, completedQuests, appState)

\* <LandingPage onStart={() => setAppState('idle')} /> (revision 1)
LandingStart ==
    /\ appState = "landing"
    /\ appState' = "idle"
    /\ caught' = Unsettled
    /\ alerted' = Undefined
    /\ UNCHANGED <<appRevision, personImage, environmentImage, currentActivity,
                   isCaregiverMenuOpen, isCustomMode, customPrompt, generation,
                   readers, earlier>>
    /\ UNCHANGED <<schedVars, genVars>>

\* an upload whose load ends before any other event (ImageChosen followed at
\* once by ReaderLoadEnd).  Revision 1: the state is set and the effect of
\* lines 73-77 starts the quest.  Revision 2: startNextQuest() is called from
\* the handler itself, whose closure holds the previous personImage.
handleImageUpload ==
    /\ appState = "idle"
    /\ \E image \in Uploads :
          /\ personImage' = image
          /\ IF appRevision = 1
             THEN IF currentActivity = NoActivity
                  THEN startNextQuest(image)
                  ELSE /\ alerted' = Undefined
                       /\ UNCHANGED <<isCaregiverMenuOpen, environmentImage, currentActivity,
                                      appState, generation, earlier>>
             ELSE startNextQuest(personImage)
    /\ caught' = Unsettled
    /\ UNCHANGED <<appRevision, isCustomMode, customPrompt, readers>>
    /\ UNCHANGED <<schedVars, genVars>>

\* handleImageUpload itself: the change event of the file input, which only the
\* idle state shows, starts a FileReader; its onloadend is a closure of the
\* render the handler belongs to
ImageChosen ==
    /\ appState = "idle"
    /\ Len(readers) < MaxReaders
    /\ \E image \in Uploads :
          readers' = Append(readers, [result |-> image, personImage |-> personImage,
                                      completedQuests |-> completedQuests])
    /\ caught' = Unsettled
    /\ alerted' = Undefined
    /\ UNCHANGED <<appRevision, personImage, environmentImage, appState, currentActivity,
                   isCaregiverMenuOpen, isCustomMode, customPrompt, generation, earlier>>
    /\ UNCHANGED <<schedVars, genVars>>

\* reader.onloadend of a FileReader that was loading, whatever the App shows by
\* then.  Revision 1: setPersonImage, setAppState('idle'), and the effect of
\* lines 73-77 runs after the render.  Revision 2: setPersonImage and
\* startNextQuest() of the closure.
ReaderLoadEnd ==
    /\ \E k \in 1..Len(readers) :
          /\ readers' = SubSeq(readers, 1, k - 1) \o SubSeq(readers, k + 1, Len(readers))
          /\ personImage' = readers[k].result
          /\ IF appRevision = 1
             THEN IF currentActivity = NoActivity
                  THEN startNextQuestFrom(readers[k].result, completedQuests, "idle")
                  ELSE /\ appState' = "idle"
                       /\ alerted' = Undefined
                       /\ UNCHANGED <<isCaregiverMenuOpen, environmentImage, currentActivity,
                                      generation, earlier>>
             ELSE startNextQuestFrom(readers[k].personImage, readers[k].completedQuests,
                                     appState)
    /\ caught' = Unsettled
    /\ UNCHANGED <<appRevision, isCustomMode, customPrompt>>
    /\ UNCHANGED <<schedVars, genVars>>

\* the buttons "Wat is het volgende?" (shown once the activity is completed)
\* and "Stel een andere activiteit voor" (caregiver menu)
NextQuestClicked ==
    /\ appState = "guiding"
    /\ ~isCustomMode
    /\ (currentActivity # NoActivity /\ currentActivity.isCompleted) \/ isCaregiverMenuOpen
    /\ startNextQuest(personImage)
    /\ caught' = Unsettled
    /\ UNCHANGED <<appRevision, personImage, isCustomMode, customPrompt, readers>>
    /\ UNCHANGED <<schedVars, genVars>>

\* the gear button: setIsCaregiverMenuOpen(!isCaregiverMenuOpen)
ToggleCaregiverMenu ==
    /\ appState = "guiding"
    /\ ~isCustomMode
    /\ isCaregiverMenuOpen' = ~isCaregiverMenuOpen
    /\ caught' = Unsettled
    /\ alerted' = Undefined
    /\ UNCHANGED <<appRevision, personImage, environmentImage, appState, currentActivity,
                   isCustomMode, customPrompt, generation, readers, earlier>>
    /\ UNCHANGED <<schedVars, genVars>>

\* menu item: setIsCustomMode(true); setIsCaregiverMenuOpen(false)
EnterCustomMode ==
    /\ appState = "guiding"
    /\ ~isCustomMode
    /\ isCaregiverMenuOpen
    /\ isCustomMode' = TRUE
    /\ isCaregiverMenuOpen' = FALSE
    /\ caught' = Unsettled
    /\ alerted' = Undefined
    /\ UNCHANGED <<appRevision, personImage, environmentImage, appState, currentActivity,
                   customPrompt, generation, readers, earlier>>
    /\ UNCHANGED <<schedVars, genVars>>

\* "Annuleren": setIsCustomMode(false)
CancelCustomMode ==
    /\ appState = "guiding"
    /\ currentActivity # NoActivity
    /\ isCustomMode
    /\ isCustomMode' = FALSE
    /\ caught' = Unsettled
    /\ alerted' = Undefined
    /\ UNCHANGED <<appRevision, personImage, environmentImage, appState, currentActivity,
                   isCaregiverMenuOpen, customPrompt, generation, readers, earlier>>
    /\ UNCHANGED <<schedVars, genVars>>

\* the textarea and the environment upload of the custom-activity form
EditCustomForm ==
    /\ appState = "guiding"
    /\ currentActivity # NoActivity
    /\ isCustomMode
    /\ \/ /\ \E text \in CustomPrompts : customPrompt' = text
          /\ UNCHANGED environmentImage
       \/ /\ \E image \in EnvironmentUploads : environmentImage' = image
          /\ UNCHANGED customPrompt
    /\ caught' = Unsettled
    /\ alerted' = Undefined
    /\ UNCHANGED <<appRevision, personImage, appState, currentActivity,
                   isCaregiverMenuOpen, isCustomMode, generation, readers, earlier>>
    /\ UNCHANGED <<schedVars, genVars>>

\* handleCreateCustomActivity up to its await (the button is disabled while
\* customPrompt is empty)
handleCreateCustomActivity ==
    /\ appState = "guiding"
    /\ currentActivity # NoActivity
    /\ isCustomMode
    /\ Truthy(customPrompt)
    /\ Cardinality(customCompleted(quests, completedQuests)) < MaxCustom
    /\ caught' = Unsettled
    /\ alerted' = Undefined
    /\ IF ~Truthy(personImage) \/ ~Truthy(customPrompt)
       THEN UNCHANGED <<currentActivity, appState, isCustomMode, customPrompt, generation,
                        earlier>>
       ELSE /\ Len(InFlight) <= MaxOverlap
            /\ earlier' = InFlight
            /\ currentActivity' = PendingActivity(customQuest(now))
            /\ appState' = "generating"
            /\ isCustomMode' = FALSE
            /\ customPrompt' = <<>>
            /\ generation' = [person |-> personImage, environment |-> environmentImage,
                              quest_id |-> customQuestId(now),
                              activity |-> customPrompt]
    /\ UNCHANGED <<appRevision, personImage, environmentImage, isCaregiverMenuOpen, readers>>
    /\ UNCHANGED <<schedVars, genVars>>

\* an awaited generateActivityStrip call settles: the rest of the try statement
\* of startNextQuest / handleCreateCustomActivity, which reads no state
GenerationSettles ==
    /\ \E k \in 1..Len(InFlight) :
          /\ generation' = IF k > Len(earlier) THEN NoGeneration ELSE generation
          /\ earlier' = IF k > Len(earlier) THEN earlier
                        ELSE SubSeq(earlier, 1, k - 1) \o SubSeq(earlier, k + 1, Len(earlier))
          /\ \E outcome \in generateActivityStripOutcomes(revision, InFlight[k].person,
                                                          InFlight[k].environment) :
                /\ caught' = outcome
                /\ IF outcome.kind = "return"
                   THEN /\ currentActivity' =
                              IF currentActivity = NoActivity THEN NoActivity
                              ELSE [currentActivity EXCEPT !.status = "done", !.url = outcome.value]
                        /\ alerted' = Undefined
                   ELSE LET handled == catchGeneration(appRevision, outcome.error)
                        IN  /\ currentActivity' =
                                  IF currentActivity = NoActivity THEN NoActivity
                                  ELSE [currentActivity EXCEPT !.status = "error",
                                                               !.error = handled.error]
                            /\ alerted' = handled.alert
    /\ appState' = "guiding"
    /\ UNCHANGED <<appRevision, personImage, environmentImage, isCaregiverMenuOpen,
                   isCustomMode, customPrompt, readers>>
    /\ UNCHANGED <<schedVars, genVars>>

\* "Ik ben helemaal klaar!": revision 1 hides the button when the status is
\* 'error' (line 339), revision 2 does not (lines 657-659)
handleToggleComplete ==
    /\ appState = "guiding"
    /\ currentActivity # NoActivity
    /\ ~isCustomMode
    /\ ~currentActivity.isCompleted
    /\ appRevision = 1 => currentActivity.status # "error"
    /\ currentActivity' = [currentActivity EXCEPT !.isCompleted = TRUE]
    /\ completedQuests' = withCompleted(completedQuests, currentActivity.quest, now)
    /\ caught' = Unsettled
    /\ alerted' = Undefined
    /\ UNCHANGED <<appRevision, personImage, environmentImage, appState,
                   isCaregiverMenuOpen, isCustomMode, customPrompt, generation,
                   readers, earlier>>
    /\ UNCHANGED <<quests, now, partOfDay, selected, schedPc, genVars>>

\* menu item "Reset dagplan"
handleReset ==
    /\ appState = "guiding"
    /\ ~isCustomMode
    /\ isCaregiverMenuOpen
    /\ personImage' = Null
    /\ currentActivity' = NoActivity
    /\ completedQuests' = <<>>
    /\ appState' = "idle"
    /\ caught' = Unsettled
    /\ alerted' = Undefined
    /\ UNCHANGED <<appRevision, environmentImage, isCaregiverMenuOpen, isCustomMode,
                   customPrompt, generation, readers, earlier>>
    /\ UNCHANGED <<quests, now, partOfDay, selected, schedPc, genVars>>

\* time passes: Date.now() does not decrease
Tick ==
    /\ \E t \in Instants : t > now /\ now' = t
    /\ UNCHANGED <<quests, completedQuests, partOfDay, selected, schedPc, genVars, appVars>>

AppInit ==
    /\ appRevision \in {1, 2}
    \* each revision of App runs with the service revision of its time (revision 1
    \* of App imports GeminiError, which only revision 1 of the service exports)
    /\ revision = appRevision
    /\ quests \in SessionCatalogs
    /\ completedQuests = <<>>
    /\ now = SessionStart
    /\ partOfDay = "<unset>"
    /\ selected = NullQuest
    /\ schedPc = "idle"
    /\ personImageDataUrl = PngUrl
    /\ activity = <<>>
    /\ environmentImageDataUrl = Null
    /\ pc = "idle"
    /\ tier = 0
    /\ attempt = 0
    /\ calls = 0
    /\ sends = <<>>
    /\ tier1Error = NoError
    /\ tier2Error = NoError
    /\ result = Unsettled
    /\ personImage = Null
    /\ environmentImage = Null
    /\ appState = IF appRevision = 1 THEN "landing" ELSE "idle"
    /\ currentActivity = NoActivity
    /\ isCaregiverMenuOpen = FALSE
    /\ isCustomMode = FALSE
    /\ customPrompt = <<>>
    /\ generation = NoGeneration
    /\ caught = Unsettled
    /\ alerted = Undefined
    /\ readers = <<>>
    /\ earlier = <<>>

AppNext ==
    \/ LandingStart
    \/ handleImageUpload
    \/ NextQuestClicked
    \/ ToggleCaregiverMenu
    \/ EnterCustomMode
    \/ CancelCustomMode
    \/ EditCustomForm
    \/ handleCreateCustomActivity
    \/ GenerationSettles
    \/ handleToggleComplete
    \/ handleReset
    \/ Tick

AppSpec == AppInit /\ [][AppNext]_vars

\* a session of the App in which the load of an uploaded file may end after
\* later events (catalog quests only, within one minute)
UploadNext ==
    \/ LandingStart
    \/ ImageChosen
    \/ ReaderLoadEnd
    \/ NextQuestClicked
    \/ ToggleCaregiverMenu
    \/ GenerationSettles
    \/ handleToggleComplete
    \/ handleReset

UploadSpec == AppInit /\ [][UploadNext]_vars

-----------------------------------------------------------------------------
(* Properties of the scheduler (checked under SchedSpec).                  *)

\* the ledger entry of a quest id, 0 when there is none
CompletedAt(id) == IF id \in DOMAIN completedQuests THEN completedQuests[id] ELSE 0

\* the first instant at which the quest is selectable again
CooldownEnd(quest) == CompletedAt(quest.quest_id) + quest.cooldown_minutes * 60000

MatchesPartOfDay(quest) == partOfDay \in quest.tags \/ "anytime" \in quest.tags

\* C1: the quest returned by getNextQuest is never on cooldown, whether it
\* came from the daypart-filtered list or from the relaxed path that ignores
\* the daypart: its ledger entry plus its cooldown is not after `now`.
C1_ReturnedNotOnCooldown ==
    (schedPc = "done" /\ selected # NullQuest) => CooldownEnd(selected) <= now

\* C1 witness: the relaxed path fired (the returned quest does not match the
\* daypart) and skipped an earlier catalog quest that was completed in the
\* past and is still on cooldown.
C1_RelaxedPathWitness ==
    /\ schedPc = "done"
    /\ Len(quests) >= 2
    /\ selected = quests[2]
    /\ ~MatchesPartOfDay(selected)
    /\ quests[1].quest_id \in DOMAIN completedQuests
    /\ CompletedAt(quests[1].quest_id) <= now
    /\ CooldownEnd(quests[1]) > now

\* C2: a quest with cooldown c completed at T is never returned at
\* T + c*60000 - 1, and is selectable at T + c*60000 and at T + c*60000 + 1
\* (an 'anytime' quest is then a possible result in every part of the day).
C2_CooldownBoundary ==
    \A i \in 1..Len(quests) :
        LET quest == quests[i]
            edge == CooldownEnd(quest)
        IN  quest.quest_id \in DOMAIN completedQuests =>
              /\ now = edge - 1 =>
                    /\ \A part \in PartsOfDay, rnd \in 0..(RandomSteps - 1) :
                          getNextQuest(quests, completedQuests, now, part, rnd) # quest
                    /\ schedPc = "done" => selected # quest
              /\ (now \in {edge, edge + 1} /\ "anytime" \in quest.tags) =>
                    \A part \in PartsOfDay : \E rnd \in 0..(RandomSteps - 1) :
                        getNextQuest(quests, completedQuests, now, part, rnd) = quest

\* C2 witness: a quest with a positive cooldown is returned at exactly
\* T + c*60000.
C2_SelectedAtBoundaryWitness ==
    /\ schedPc = "done"
    /\ selected # NullQuest
    /\ selected.cooldown_minutes >= 1
    /\ selected.quest_id \in DOMAIN completedQuests
    /\ now = CooldownEnd(selected)

-----------------------------------------------------------------------------
(* Properties of a generateActivityStrip call (checked under Spec).        *)

\* the response a send returned
Returned(s) == sends[s].outcome.kind = "return"

ResponseOf(s) == sends[s].outcome.value

\* the safety-block indicator: finish reason SAFETY on the first candidate
HasSafetyIndicator(response) ==
    Len(response.candidates) >= 1 /\ response.candidates[1].finishReason = "SAFETY"

\* the inline images among the content parts of the first candidate, in order
InlineImages(response) ==
    IF Len(response.candidates) = 0 THEN <<>>
    ELSE SelectSeq(response.candidates[1].parts, LAMBDA part : part.inlineData # NoInlineData)

HasInlineImage(response) == Len(InlineImages(response)) >= 1

\* the data URL of the first inline image of a response
ImageOf(response) ==
    LET image == InlineImages(response)[1].inlineData
    IN  <<"data:">> \o image.mimeType \o <<";base64,">> \o image.data

\* the classifier's third rule: no safety indicator, no inline image
IsNoImageResponse(response) == ~HasSafetyIndicator(response) /\ ~HasInlineImage(response)

\* the failure kinds, as the service encodes them
IsSafetyBlocked(r) ==
    /\ r.kind = "throw"
    /\ r.error.name = "GeminiError"
    /\ r.error.userFriendlyMessage = MsgInappropriate

IsMalformedImage(r) == r.kind = "throw" /\ r.error.message = InvalidFormat

IsFallbackExhausted(r) ==
    r.kind = "throw" /\ Len(r.error.message) >= 1 /\ r.error.message[1] = BothFailed

\* s contains sub as a contiguous run of tokens
Embeds(s, sub) ==
    \E i \in 1..(Len(s) + 1 - Len(sub)) : SubSeq(s, i, i + Len(sub) - 1) = sub

\* the `fail` events of a send's log
Failures(s) == SelectSeq(sends[s].log, LAMBDA e : e.ev = "fail")

\* C3: when the Tier 1 response carries the safety-block indicator, no second
\* send is ever made and the call ends with the SafetyBlocked failure.
C3_SafetyBlockedIsTerminal ==
    (Len(sends) >= 1 /\ Returned(1) /\ HasSafetyIndicator(ResponseOf(1))) =>
        /\ Len(sends) = 1
        /\ pc = "done"
        /\ IsSafetyBlocked(result)

C5_RetryTwiceThenSucceed ==
    \A s \in 1..Len(sends) :
        (/\ Returned(s)
         /\ Len(Failures(s)) = 2
         /\ \A i \in 1..2 : Failures(s)[i].transient /\ Failures(s)[i].attempt = i) =>
            LET first == sends[s].log[1].id
            IN  /\ sends[s].log =
                       <<Event("attempt", 1, first, FALSE, 0),
                         Event("fail", 1, first, TRUE, 0),
                         Event("wait", 1, 0, FALSE, 1000),
                         Event("attempt", 2, first + 1, FALSE, 0),
                         Event("fail", 2, first + 1, TRUE, 0),
                         Event("wait", 2, 0, FALSE, 2000),
                         Event("attempt", 3, first + 2, FALSE, 0),
                         Event("return", 3, first + 2, FALSE, 0)>>
                /\ ResponseOf(s).n = first + 2

\* C5 witness: a send returned after two transient failures.
C5_RetriedTwiceWitness ==
    /\ pc = "done"
    /\ Len(sends) >= 1
    /\ Returned(1)
    /\ Len(Failures(1)) = 2
    /\ Failures(1)[1].transient /\ Failures(1)[2].transient

\* C6: a send all of whose attempts fail with a transient-server error makes
\* exactly three attempts, does not wait after the third, and raises the very
\* error of the third attempt, not a wrapper.
C6_RetryExhausted ==
    \A s \in 1..Len(sends) :
        (/\ sends[s].outcome.kind = "throw"
         /\ \A i \in 1..Len(Failures(s)) : Failures(s)[i].transient) =>
            LET first == sends[s].log[1].id
                raised == sends[s].outcome.error
            IN  /\ sends[s].log =
                       <<Event("attempt", 1, first, FALSE, 0),
                         Event("fail", 1, first, TRUE, 0),
                         Event("wait", 1, 0, FALSE, 1000),
                         Event("attempt", 2, first + 1, FALSE, 0),
                         Event("fail", 2, first + 1, TRUE, 0),
                         Event("wait", 2, 0, FALSE, 2000),
                         Event("attempt", 3, first + 2, FALSE, 0),
                         Event("fail", 3, first + 2, TRUE, 0),
                         Event("raise", 3, first + 2, FALSE, 0)>>
                /\ raised.id = first + 2
                /\ [raised EXCEPT !.id = 0] \in TransportErrors
                /\ ServerInternal(raised)

\* C6 witness: a send raised after three transient failures.
C6_ExhaustedWitness ==
    /\ pc = "done"
    /\ Len(sends) >= 1
    /\ sends[1].outcome.kind = "throw"
    /\ Len(Failures(1)) = 3
    /\ \A i \in 1..3 : Failures(1)[i].transient

\* C7: at most two sends are made, and a second send is made only when the
\* first send returned a response and that response is a no-image response
\* (no safety indicator, no inline image).
C7_FallbackOnlyAfterNoImage ==
    /\ Len(sends) <= 2
    /\ Len(sends) = 2 => (Returned(1) /\ IsNoImageResponse(ResponseOf(1)))

\* the data:<mime>;base64,<payload> shape
HasDataUrlShape(url) == Len(url) >= 4 /\ url[1] = "data:" /\ url[4] = ";base64,"

\* an environment image was supplied (the parameter is neither null nor empty)
Supplied(url) == url # Null /\ url # <<>>

MalformedInput ==
    \/ ~HasDataUrlShape(personImageDataUrl)
    \/ Supplied(environmentImageDataUrl) /\ ~HasDataUrlShape(environmentImageDataUrl)

\* C8: when the subject image or the supplied environment image does not have
\* the data URL shape, no transport call and no wait is ever made, and the
\* call ends with the MalformedImage failure.
C8_MalformedImageBeforeTransport ==
    MalformedInput =>
        /\ calls = 0
        /\ sends = <<>>
        /\ pc \in {"ready", "done"}
        /\ pc = "done" => IsMalformedImage(result)

\* C8 witness: the call ended on a malformed environment image (the subject
\* image being well-formed).
C8_MalformedEnvironmentWitness ==
    /\ pc = "done"
    /\ HasDataUrlShape(personImageDataUrl)
    /\ Supplied(environmentImageDataUrl)
    /\ ~HasDataUrlShape(environmentImageDataUrl)
    /\ IsMalformedImage(result)

\* C9: when a second send was made and the call fails, the failure is
\* FallbackExhausted, its user message is the technical-error message, and its
\* raw message embeds the raw message of the Tier 1 failure and that of the
\* Tier 2 failure.
C9_FallbackExhausted ==
    (pc = "done" /\ Len(sends) >= 2 /\ result.kind = "throw") =>
        /\ IsFallbackExhausted(result)
        /\ result.error.userFriendlyMessage = MsgTechnical
        /\ Embeds(result.error.message, tier1Error.message)
        /\ Embeds(result.error.message, tier2Error.message)

\* C10: a response with the safety-block indicator is classified
\* SafetyBlocked even when its parts hold an inline image; a call returns an
\* image only if the response it came from has no safety indicator.
C10_SafetyBeforeImage ==
    (pc = "done" /\ Len(sends) >= 1 /\ Returned(Len(sends))) =>
        LET response == ResponseOf(Len(sends))
        IN  /\ HasSafetyIndicator(response) => IsSafetyBlocked(result)
            /\ result.kind = "return" => ~HasSafetyIndicator(response)

\* what processGeminiResponse did with the response of send s: the value the
\* call returned, or the error the try block of that tier threw
Classified(s) ==
    IF s = Len(sends) /\ pc = "done" /\ result.kind = "return" THEN result
    ELSE Throw(IF s = 1 THEN tier1Error ELSE tier2Error)

\* the text a no-image failure quotes: the response text, or the placeholder
QuotedText(response) ==
    IF response.text = Undefined \/ response.text = <<>>
    THEN <<"No text response received.">>
    ELSE response.text

\* C11: a returned response without safety indicator is classified as follows:
\* if a content part of its first candidate carries inline data, the result is
\* the data URL made of the mime type and data of the first such part,
\* unchanged; otherwise it is the no-image failure, whose raw message quotes
\* the response text, or the placeholder when the response has no text.
C11_ImageVerbatimElseNoImage ==
    \A s \in 1..Len(sends) :
        (Returned(s) /\ ~HasSafetyIndicator(ResponseOf(s))) =>
            LET response == ResponseOf(s)
                outcome == Classified(s)
            IN  IF HasInlineImage(response)
                THEN /\ outcome.kind = "return"
                     /\ outcome.value =
                            <<"data:">> \o InlineImages(response)[1].inlineData.mimeType
                            \o <<";base64,">> \o InlineImages(response)[1].inlineData.data
                ELSE /\ outcome.kind = "throw"
                     /\ outcome.error.message[1] = NoImagePhrase
                     /\ Embeds(outcome.error.message, QuotedText(response))

\* C11 witness: a JPEG that follows no text part was returned unchanged.
C11_JpegReturnedWitness ==
    /\ pc = "done"
    /\ Len(sends) = 1
    /\ Returned(1)
    /\ ~HasSafetyIndicator(ResponseOf(1))
    /\ result = Return(<<"data:", "image/", "jpeg", ";base64,", "R0VOMg==">>)

\* C12: every failure a call ends with carries a raw message and a user
\* message, both non-empty.
C12_FailureHasBothMessages ==
    (pc = "done" /\ result.kind = "throw") =>
        /\ Truthy(result.error.message)
        /\ Truthy(result.error.userFriendlyMessage)

-----------------------------------------------------------------------------
(* Properties of the App session (checked under AppSpec).                  *)

\* the text of an alert, none when alert() was not called
AlertText(alert) == IF alert = Undefined THEN <<>> ELSE alert

\* what the user is shown once a generation has settled: the alert of the
\* handler and the text inside the PolaroidCard of renderGuidingState
ShownText ==
    AlertText(alerted)
    \o PolaroidCard(currentActivity.status, currentActivity.url, currentActivity.error)

\* the text shown when the awaited call threw `err`
ShownAfter(appRev, err) ==
    LET handled == catchGeneration(appRev, err)
    IN  AlertText(handled.alert) \o PolaroidCard("error", Undefined, handled.error)

\* the raw messages a thrown error can carry
RawMessages ==
    {o.error.message : o \in {g \in GenerationOutcomes1 \cup GenerationOutcomes2 :
                                  g.kind = "throw"}}
    \cup {InvalidFormat, <<"TypeError: fetch failed">>}

\* C13: right after a generation failed, the text shown to the user (the
\* alert and the card) does not contain the raw message of the error, and it
\* is the same text for every other raw message the error could carry.
C13_RawMessageNotShown ==
    (caught.kind = "throw" /\ currentActivity # NoActivity) =>
        /\ currentActivity.status = "error"
        /\ ShownText = ShownAfter(appRevision, caught.error)
        /\ ~Embeds(ShownText, caught.error.message)
        /\ \A raw \in RawMessages :
              ShownAfter(appRevision, [caught.error EXCEPT !.message = raw]) = ShownText

\* C13 witness: a failed generation whose raw message is stored in
\* currentActivity.error (revision 2) while the card shows the fixed text.
C13_RawStoredNotShownWitness ==
    /\ caught.kind = "throw"
    /\ currentActivity.status = "error"
    /\ currentActivity.error.message = caught.error.message
    /\ Truthy(caught.error.message)
    /\ ShownText = ErrorDisplay

\* the ledger after the step has exactly the entries of `cq` and one for `id`
SetsOnlyEntry(cq, id, after) ==
    /\ DOMAIN after = DOMAIN cq \cup {id}
    /\ \A other \in DOMAIN cq : other # id => after[other] = cq[other]

\* C14: a step changes the completion ledger only as a completion event or as
\* a reset: the completion sets the entry of the current activity's quest id
\* and keeps every other entry, the reset leaves no entry; a step that starts
\* or finishes a generation does not change the ledger.
C14_LedgerFrame ==
    [][/\ completedQuests' # completedQuests =>
            \/ /\ currentActivity # NoActivity
               /\ currentActivity'.isCompleted
               /\ SetsOnlyEntry(completedQuests, currentActivity.quest.quest_id, completedQuests')
            \/ /\ DOMAIN completedQuests' = {}
               /\ currentActivity' = NoActivity
       /\ (appState' = "generating" \/ appState = "generating") =>
              completedQuests' = completedQuests]_vars

\* C14 witness: a completion added the entry of the second catalog quest and
\* kept the older entry of the first one.
C14_SecondEntryWitness ==
    /\ currentActivity.quest.quest_id = "q2"
    /\ currentActivity.isCompleted
    /\ DOMAIN completedQuests = {"q1", "q2"}
    /\ completedQuests["q1"] < completedQuests["q2"]
    /\ completedQuests["q2"] = now

\* C15: every timestamp in the completion ledger is at or before the current
\* time (the clock of the session never goes back).
C15_NoFutureTimestamps ==
    \A id \in DOMAIN completedQuests : completedQuests[id] <= now

\* C15 witness: time has passed since one completion, and another completion
\* carries the current instant.
C15_PastAndPresentWitness ==
    /\ \E id \in DOMAIN completedQuests : completedQuests[id] < now
    /\ \E id \in DOMAIN completedQuests : completedQuests[id] = now

\* the quests of the session: the catalog and the current activity's quest
SessionQuests ==
    {quests[i] : i \in 1..Len(quests)}
    \cup (IF currentActivity = NoActivity THEN {} ELSE {currentActivity.quest})

LedgerWith(cq, id, t) == [k \in DOMAIN cq \cup {id} |-> IF k = id THEN t ELSE cq[k]]

\* the ledger without the entry of `id`
LedgerWithout(cq, id) == [k \in DOMAIN cq \ {id} |-> cq[k]]

\* ledgers that agree with `cq` on `id`: nothing but the entry of `id`, or
\* one other entry (of a catalog quest, of a completed custom quest or of a
\* custom quest created now) removed or set to another instant
LedgersAgreeingOn(cq, id) ==
    LET others == (DOMAIN cq \cup {quests[i].quest_id : i \in 1..Len(quests)}
                   \cup {customQuestId(now)}) \ {id}
    IN  {[k \in DOMAIN cq \cap {id} |-> cq[k]]}
        \cup {LedgerWithout(cq, other) : other \in others}
        \cup {LedgerWith(cq, other, t) : other \in others, t \in Instants}

\* C17: the cooldown status of a quest is the same under every ledger that
\* agrees with the session's ledger on the entry of that quest, whatever the
\* other entries are, those of completed custom quests included.
C17_CooldownReadsOwnEntryOnly ==
    \A quest \in SessionQuests :
        \A other \in LedgersAgreeingOn(completedQuests, quest.quest_id) :
            isOnCooldown(quest, other, now) = isOnCooldown(quest, completedQuests, now)

\* C17 witness: a completed catalog quest is on cooldown while the ledger
\* also holds the completion of a custom quest made after it, and another
\* catalog quest is free.
C17_CustomEntryWitness ==
    /\ \E i \in 1..Len(quests) :
          /\ quests[i].quest_id \in DOMAIN completedQuests
          /\ isOnCooldown(quests[i], completedQuests, now)
          /\ \E id \in customCompleted(quests, completedQuests) :
                completedQuests[id] >= lastCompleted(completedQuests, quests[i].quest_id)
    /\ \E i \in 1..Len(quests) : ~isOnCooldown(quests[i], completedQuests, now)

-----------------------------------------------------------------------------
(* Properties of the selection (checked under SchedSpec).                  *)

\* the catalog positions of the quests that are not on cooldown
FreePositions == {i \in 1..Len(quests) : CooldownEnd(quests[i]) <= now}

\* the catalog quests tagged for `part` or 'anytime' that are not on cooldown
Eligible(part) ==
    {quests[i] : i \in {k \in FreePositions : part \in quests[k].tags \/ "anytime" \in quests[k].tags}}

\* what getNextQuest can return in `part`, over the values of Math.random()
PossibleResults(part) ==
    {getNextQuest(quests, completedQuests, now, part, rnd) : rnd \in 0..(RandomSteps - 1)}

\* C18: when some catalog quest is tagged for the part of the day or for
\* 'anytime' and is not on cooldown, the possible results of getNextQuest are
\* exactly those quests: each of them can be returned and nothing else can.
C18_ResultAmongEligible ==
    /\ \A part \in PartsOfDay :
          Eligible(part) # {} => PossibleResults(part) = Eligible(part)
    /\ (schedPc = "done" /\ Eligible(partOfDay) # {}) => selected \in Eligible(partOfDay)

\* C18 witness: the returned quest is the only eligible one, and an earlier
\* catalog quest that is not on cooldown was left out for its tags.
C18_WrongTagSkippedWitness ==
    /\ schedPc = "done"
    /\ Len(quests) >= 2
    /\ Eligible(partOfDay) = {quests[2]}
    /\ selected = quests[2]
    /\ 1 \in FreePositions
    /\ quests[1].quest_id \in DOMAIN completedQuests

\* C19: when no catalog quest is both tagged for the part of the day (or
\* 'anytime') and off cooldown, but some quest is off cooldown, getNextQuest
\* returns the first such quest in catalog order, whatever its tags and
\* whatever Math.random() gives.
C19_RelaxedTakesFirstFree ==
    /\ \A part \in PartsOfDay :
          (Eligible(part) = {} /\ FreePositions # {}) =>
              PossibleResults(part) =
                  {quests[CHOOSE i \in FreePositions : \A j \in FreePositions : i <= j]}
    /\ (schedPc = "done" /\ Eligible(partOfDay) = {} /\ FreePositions # {}) =>
          /\ selected \in {quests[i] : i \in FreePositions}
          /\ \A i \in FreePositions : selected = quests[i] => \A j \in FreePositions : i <= j

\* C19 witness: no quest is eligible, two quests are off cooldown, and the
\* first of them was returned although its tags do not match.
C19_FirstOfTwoFreeWitness ==
    /\ schedPc = "done"
    /\ Eligible(partOfDay) = {}
    /\ Cardinality(FreePositions) >= 2
    /\ selected = quests[1]
    /\ ~MatchesPartOfDay(selected)

-----------------------------------------------------------------------------
(* Properties of the App session, continued (checked under AppSpec).       *)

\* every catalog quest is on cooldown
AllOnCooldown == \A i \in 1..Len(quests) : CooldownEnd(quests[i]) > now

CatalogIds == {quests[i].quest_id : i \in 1..Len(quests)}

\* C20 (selection): in every state of the session getNextQuest returns null,
\* in every part of the day and for every random draw, exactly when every
\* catalog quest is on cooldown.
C20_NullIffAllOnCooldown ==
    \A part \in PartsOfDay, rnd \in 0..(RandomSteps - 1) :
        (getNextQuest(quests, completedQuests, now, part, rnd) = NullQuest) <=> AllOnCooldown

\* C20: getNextQuest returns null exactly when every catalog quest is on
\* cooldown, and a startNextQuest call made then only alerts: it starts no
\* generation and leaves appState, currentActivity and the ledger as they
\* were; no step starts the generation of a catalog quest in such a state.
C20_NoQuestIsInformational ==
    /\ []C20_NullIffAllOnCooldown
    /\ [][AllOnCooldown =>
              /\ ~(appState' = "generating" /\ generation'.quest_id \in CatalogIds)
              /\ NextQuestClicked =>
                    /\ alerted' = NoQuestAlert(appRevision)
                    /\ appState' = appState
                    /\ currentActivity' = currentActivity
                    /\ completedQuests' = completedQuests
                    /\ generation' = NoGeneration]_vars

\* C20 witness: every catalog quest has been completed and is on cooldown,
\* and the request for the next quest ended in the alert.
C20_NothingAvailableWitness ==
    /\ AllOnCooldown
    /\ CatalogIds \subseteq DOMAIN completedQuests
    /\ alerted = NoQuestAlert(appRevision)
    /\ appState = "guiding"
    /\ currentActivity.isCompleted
    /\ generation = NoGeneration

-----------------------------------------------------------------------------
(* Properties of one generateActivityStrip call, continued (checked under  *)
(* Spec).                                                                   *)

\* the positions <<s, i>> of the events of the given kinds in the logs
EventsOf(kinds) ==
    {<<s, i>> \in (1..Len(sends)) \X (1..9) : i <= Len(sends[s].log) /\ sends[s].log[i].ev \in kinds}

\* the generateContent requests issued and not yet resolved or rejected
OpenRequests == Cardinality(EventsOf({"attempt"})) - Cardinality(EventsOf({"return", "fail"}))

\* C21: at most one generateContent request is open at any moment, and one is
\* open exactly while the call is suspended on it; attempt k+1 of a send is
\* issued right after the wait that follows the failure of attempt k; the
\* second send exists only once the first has settled and the try block of
\* the first tier has ended in a failure.
C21_OneRequestInFlight ==
    /\ OpenRequests = (IF pc = "inflight" THEN 1 ELSE 0)
    /\ \A s \in 1..Len(sends) :
          \A i \in 1..Len(sends[s].log) :
              LET e == sends[s].log[i]
              IN  (e.ev = "attempt" /\ e.attempt > 1) =>
                      /\ i >= 4
                      /\ sends[s].log[i - 1].ev = "wait"
                      /\ sends[s].log[i - 1].attempt = e.attempt - 1
                      /\ sends[s].log[i - 2].ev = "fail"
                      /\ sends[s].log[i - 2].attempt = e.attempt - 1
    /\ \A s \in 1..Len(sends) : s < Len(sends) => sends[s].outcome.kind # "pending"
    /\ Len(sends) >= 2 =>
          /\ tier1Error # NoError
          /\ tryBlock(revision, sends[1].outcome) = Throw(tier1Error)

\* C21 witness: the second attempt of the fallback send is in flight, after a
\* first send that was itself retried.
C21_FallbackRetryInFlightWitness ==
    /\ pc = "inflight"
    /\ Len(sends) = 2
    /\ Len(Failures(1)) >= 1
    /\ attempt = 2
    /\ OpenRequests = 1

\* C22: when an attempt of a send fails with an error that is not a
\* transient-server error, the send ends there: the failure is followed by no
\* wait and no further attempt, and the send raises that very error.
C22_NonTransientNoRetry ==
    \A s \in 1..Len(sends) :
        \A i \in 1..Len(sends[s].log) :
            LET e == sends[s].log[i]
            IN  (e.ev = "fail" /\ ~e.transient) =>
                    /\ Len(sends[s].log) = i + 1
                    /\ sends[s].log[i + 1] = Event("raise", e.attempt, e.id, FALSE, 0)
                    /\ sends[s].outcome.kind = "throw"
                    /\ sends[s].outcome.error.id = e.id
                    /\ ~ServerInternal(sends[s].outcome.error)

\* C22 witness: the second attempt of a send failed with a non-transient
\* error after a transient failure of the first, and the send raised.
C22_SecondAttemptRaisedWitness ==
    /\ Len(sends) >= 1
    /\ Len(Failures(1)) = 2
    /\ Failures(1)[1].transient
    /\ ~Failures(1)[2].transient
    /\ sends[1].outcome.kind = "throw"

\* the promise of generateActivityStrip resolved with a data URL
ReturnedImage ==
    /\ result.kind = "return"
    /\ result.error = NoError
    /\ Len(result.value) >= 4
    /\ result.value[1] = "data:"

\* the promise of generateActivityStrip was rejected with an error
ThrownFailure ==
    /\ result.kind = "throw"
    /\ result.value = Undefined
    /\ result.error.name # "<none>"
    /\ Truthy(result.error.message)

\* C23: when every transport request resolves or rejects (and every backoff
\* timer fires), a generateActivityStrip call settles; it settles once, with a
\* returned image or with a thrown failure and never with both or neither,
\* and it has no outcome before it settles.
C23_TerminatesWithOneOutcome ==
    /\ <>(pc = "done")
    /\ [](pc # "done" => result.kind = "pending")
    /\ [](pc = "done" => (ReturnedImage \/ ThrownFailure) /\ ~(ReturnedImage /\ ThrownFailure))
    /\ [][pc = "done" => (pc' = "done" /\ result' = result)]_vars

\* C23 witness: the longest call has settled: three attempts in each tier.
C23_LongestCallSettledWitness ==
    /\ pc = "done"
    /\ calls = 2 * maxRetries
    /\ ThrownFailure

EnvironmentClause == "Use the second photo as the background environment."

\* the parts of a request that carry inline image data
ImagePartsOf(parts) == SelectSeq(parts, LAMBDA part : part.inlineData # NoInlineData)

\* the parts of a request that carry text
TextPartsOf(parts) == SelectSeq(parts, LAMBDA part : part.text # Undefined)

\* the inline data createPart makes of a data URL the regular expression accepts
InlineDataOf(dataUrl) ==
    [mimeType |-> SubSeq(dataUrl, 2, 3), data |-> SubSeq(dataUrl, 5, Len(dataUrl))]

\* C24: the request of the fallback send has two parts, the image of the
\* person and one text that quotes the activity and does not mention a second
\* photo; the environment image is not among its parts, also when it was
\* supplied to the call and sent with the first request.
C24_FallbackWithoutEnvironment ==
    Len(sends) >= 2 =>
        LET parts == sends[2].parts
        IN  /\ Len(parts) = 2
            /\ ImagePartsOf(parts) = <<ImagePart(InlineDataOf(personImageDataUrl).mimeType,
                                                 InlineDataOf(personImageDataUrl).data)>>
            /\ Len(TextPartsOf(parts)) = 1
            /\ TextPartsOf(parts)[1] = parts[2]
            /\ Embeds(parts[2].text, activity)
            /\ ~Includes(parts[2].text, EnvironmentClause)
            /\ \A i \in 1..Len(parts) :
                  Truthy(environmentImageDataUrl) =>
                      parts[i].inlineData # InlineDataOf(environmentImageDataUrl)

\* C24 witness: the first request carried the environment image and its
\* clause, and the fallback request was made.
C24_EnvironmentDroppedWitness ==
    /\ Len(sends) = 2
    /\ environmentImageDataUrl = JpegUrl
    /\ Len(ImagePartsOf(sends[1].parts)) = 2
    /\ sends[1].parts[2].inlineData = InlineDataOf(JpegUrl)
    /\ Includes(sends[1].parts[3].text, EnvironmentClause)

-----------------------------------------------------------------------------
(* Properties of the requests an App session makes (checked under AppSpec). *)

\* the awaited call was given an environment image
EnvironmentSupplied == Truthy(generation.environment)

\* the first request of the awaited generateActivityStrip call
Tier1Request ==
    primaryParts(createPart(generation.person).value,
                 IF EnvironmentSupplied THEN createPart(generation.environment).value
                 ELSE NoPart,
                 generation.activity, generation.environment)

\* the awaited call gets past createPart and sends its first request
SendsTier1 ==
    /\ appState = "generating"
    /\ createPart(generation.person).kind = "return"
    /\ EnvironmentSupplied => createPart(generation.environment).kind = "return"

\* C25: the first request of a generation holds the person image, then the
\* environment image if and only if one was supplied, then one text, which
\* holds the environment clause if and only if one was supplied; a generation
\* started for a catalog quest is given no environment image, so that only a
\* custom activity can carry one.
C25_EnvironmentIffSupplied ==
    /\ SendsTier1 =>
          LET parts == Tier1Request
              images == ImagePartsOf(parts)
          IN  /\ Len(parts) = Len(images) + 1
              /\ images[1].inlineData = InlineDataOf(generation.person)
              /\ Len(images) = (IF EnvironmentSupplied THEN 2 ELSE 1)
              /\ EnvironmentSupplied =>
                    images[2].inlineData = InlineDataOf(generation.environment)
              /\ TextPartsOf(parts) = <<parts[Len(parts)]>>
              /\ Includes(parts[Len(parts)].text, EnvironmentClause) <=> EnvironmentSupplied
    /\ appState = "generating" =>
          /\ generation.quest_id \in CatalogIds => generation.environment = Null
          /\ EnvironmentSupplied => generation.quest_id \notin CatalogIds

\* C25 witness: a custom activity is being generated with the uploaded
\* environment image.
C25_CustomWithEnvironmentWitness ==
    /\ SendsTier1
    /\ generation.environment = JpegUrl
    /\ generation.quest_id \notin CatalogIds
    /\ Len(Tier1Request) = 3

\* the prompt interpolates `act` right after its opening sentence
Quotes(text, act) ==
    /\ Len(text) >= Len(act) + 2
    /\ SubSeq(text, 2, Len(act) + 1) = act

-----------------------------------------------------------------------------
(* Properties of the selection, continued (checked under SchedSpec).       *)

\* the part of the day the hour belongs to, as a table
DayPartTable ==
    [h \in Hours |->
        CHOOSE part \in PartsOfDay :
            \/ part = "morning" /\ h \in 5..11
            \/ part = "midday" /\ h \in 12..16
            \/ part = "afternoon" /\ h \in 17..20
            \/ part = "evening" /\ h \in (21..23) \cup (0..4)]

\* C27: getPartOfDay maps every hour 0..23 to exactly one of the four parts
\* of the day: 5..11 to morning, 12..16 to midday, 17..20 to afternoon, and
\* 21..23 and 0..4 to evening; a selection is made for one of those parts.
C27_PartOfDayTotal ==
    /\ \A h \in Hours :
          /\ getPartOfDay(h) \in PartsOfDay
          /\ getPartOfDay(h) = DayPartTable[h]
    /\ schedPc = "done" => partOfDay \in {DayPartTable[h] : h \in Hours}

\* C27 witness: a selection was made in the evening, the part that covers
\* the hours on both sides of midnight.
C27_EveningSelectionWitness ==
    /\ schedPc = "done"
    /\ partOfDay = "evening"
    /\ partOfDay = getPartOfDay(23)
    /\ partOfDay = getPartOfDay(0)
    /\ selected # NullQuest

-----------------------------------------------------------------------------
(* Properties of the App session, continued (checked under AppSpec).       *)

\* the quests getNextQuest can return now, over the hours and random draws
SelectableNow ==
    {getNextQuest(quests, completedQuests, now, getPartOfDay(h), rnd) :
         h \in Hours, rnd \in 0..(RandomSteps - 1)} \ {NullQuest}

\* C28: when a photo of the person is uploaded while the app is idle with no
\* current activity and getNextQuest yields a quest, the upload itself starts
\* the generation: appState becomes 'generating' and the current activity is
\* that quest, pending, for the uploaded photo.
C28_UploadStartsGeneration ==
    [][(handleImageUpload /\ currentActivity = NoActivity /\ SelectableNow # {}) =>
            /\ appState' = "generating"
            /\ currentActivity'.status = "pending"
            /\ currentActivity'.quest \in SelectableNow
            /\ generation'.person = personImage'
            /\ generation'.quest_id = currentActivity'.quest.quest_id]_vars

\* another catalog quest than the current one is tagged 'anytime' and off
\* cooldown: it is eligible whatever the part of the day
OtherQuestEligible ==
    \E i \in 1..Len(quests) :
        /\ quests[i] # currentActivity.quest
        /\ "anytime" \in quests[i].tags
        /\ ~isOnCooldown(quests[i], completedQuests, now)

\* C29: when "suggest a different activity" is used in the caregiver menu
\* while another catalog quest is eligible, the quest of the new current
\* activity differs from the quest that was shown.
C29_SuggestsDifferentQuest ==
    [][(NextQuestClicked /\ isCaregiverMenuOpen /\ currentActivity # NoActivity
        /\ OtherQuestEligible) =>
            currentActivity'.quest # currentActivity.quest]_vars

\* the step starts the generation of a catalog quest: the scheduler chose it
SchedulerChose(quest) ==
    /\ appState # "generating"
    /\ appState' = "generating"
    /\ currentActivity' = PendingActivity(quest)
    /\ generation'.quest_id = quest.quest_id

-----------------------------------------------------------------------------
(* Properties of an App session with overlapping uploads (checked under    *)
(* UploadSpec).                                                            *)

\* C31: at most one generateActivityStrip call is in flight at any time, and
\* the call in flight was requested for the current activity, which is still
\* pending: its image or error is applied to the activity it was requested for.
C31_OneGenerationInFlight ==
    /\ Len(InFlight) <= 1
    /\ \A k \in 1..Len(InFlight) :
          /\ currentActivity # NoActivity
          /\ currentActivity.quest.quest_id = InFlight[k].quest_id
          /\ currentActivity.status = "pending"

\* C32: while a generation has not settled, appState is 'generating' and the
\* current activity is 'pending'; in the guiding state the activity is 'done'
\* with an image url or 'error' with a message, never 'pending'.
C32_GeneratingUntilGuiding ==
    /\ InFlight # <<>> =>
          /\ appState = "generating"
          /\ currentActivity.status = "pending"
    /\ appState = "generating" => InFlight # <<>>
    /\ appState = "guiding" =>
          \/ /\ currentActivity.status = "done"
             /\ currentActivity.url # Undefined
          \/ /\ currentActivity.status = "error"
             /\ currentActivity.error.message # Undefined

-----------------------------------------------------------------------------
(* Properties of an App session (checked under AppSpec), continued.        *)

\* C33: a step that writes an id into the completion ledger is taken while the
\* current activity is the quest of that id and its status is 'done': an
\* activity whose generation failed is never marked completed.
C33_ErrorNeverCompleted ==
    [][\A id \in DOMAIN completedQuests' :
          (\/ id \notin DOMAIN completedQuests
           \/ completedQuests'[id] # completedQuests[id])
          => /\ currentActivity.quest.quest_id = id
             /\ currentActivity.status = "done"]_vars

-----------------------------------------------------------------------------
(* Properties of one generateActivityStrip call (checked under Spec),      *)
(* continued.                                                              *)

\* two responses with the same first candidate and the same text
SameFirstCandidate(one, other) ==
    /\ Len(one.candidates) >= 1
    /\ Len(other.candidates) >= 1
    /\ one.candidates[1] = other.candidates[1]
    /\ one.text = other.text

\* two results of processGeminiResponse are the same image or the same failure
SameClassification(one, other) ==
    /\ one.kind = other.kind
    /\ one.kind = "return" => one.value = other.value
    /\ one.kind = "throw" =>
          /\ one.error.name = other.error.name
          /\ one.error.message = other.error.message
          /\ one.error.userFriendlyMessage = other.error.userFriendlyMessage

\* C34: the result of classifying a returned response is the result for every
\* response with the same first candidate, whatever candidates follow it: a
\* safety finish reason or an inline image in a later candidate changes nothing.
C34_FirstCandidateOnly ==
    \A s \in 1..Len(sends) :
        (Returned(s) /\ (s < Len(sends) \/ pc = "done")) =>
            \A other \in Responses :
                SameFirstCandidate(ResponseOf(s), other) =>
                    SameClassification(Classified(s),
                                       processGeminiResponse(revision, other))

\* C34 witness: the first candidate of a returned response stopped normally
\* without an image, a later candidate was blocked for safety and carries an
\* image, and the response was classified as the no-image failure.
C34_LaterCandidateIgnoredWitness ==
    /\ pc = "done"
    /\ Len(sends) = 1
    /\ Returned(1)
    /\ Len(ResponseOf(1).candidates) = 2
    /\ ResponseOf(1).candidates[1].finishReason = "STOP"
    /\ findInlineData(ResponseOf(1).candidates[1].parts) = NoPart
    /\ ResponseOf(1).candidates[2].finishReason = "SAFETY"
    /\ findInlineData(ResponseOf(1).candidates[2].parts) # NoPart
    /\ result.kind = "throw"
    /\ tier1Error.message[1] = NoImagePhrase

\* the events of the given kinds in the log of send s
LoggedBy(s, kinds) == SelectSeq(sends[s].log, LAMBDA e : e.ev \in kinds)

\* C35: a call issues at most 6 generateContent requests, at most 3 in each
\* callGeminiWithRetry call, and waits at most 4 times, each wait following
\* attempt 1 or 2; no callGeminiWithRetry call ends with the statement after
\* its loop.
C35_AttemptsAndWaitsBounded ==
    /\ calls <= 6
    /\ Cardinality(EventsOf({"attempt"})) = calls
    /\ Cardinality(EventsOf({"wait"})) <= 4
    /\ \A s \in 1..Len(sends) :
          /\ Len(LoggedBy(s, {"attempt"})) <= 3
          /\ Len(LoggedBy(s, {"wait"})) <= 2
          /\ \A i \in 1..Len(sends[s].log) :
                /\ sends[s].log[i].attempt \in 1..3
                /\ sends[s].log[i].ev = "wait" => sends[s].log[i].attempt < 3
          /\ sends[s].outcome.kind = "throw" =>
                sends[s].outcome.error.message # AfterAllRetries
    /\ tier1Error.message # AfterAllRetries
    /\ tier2Error.message # AfterAllRetries
    /\ result.kind = "throw" => ~Embeds(result.error.message, AfterAllRetries)

\* C35 witness: a call that has ended after 6 requests and 4 waits, its last
\* request having failed with a transient server error.
C35_SixAttemptsFourWaitsWitness ==
    /\ pc = "done"
    /\ calls = 6
    /\ Cardinality(EventsOf({"wait"})) = 4
    /\ Len(sends) = 2
    /\ Len(LoggedBy(2, {"fail"})) = 3
    /\ LoggedBy(2, {"fail"})[3].transient

=============================================================================
